---- MODULE Spec2Model ----
(***************************************************************************)
(* The two MIOpen LRN operators of                                         *)
(* caffe2/operators/hip/local_response_normalization_op_miopen.cc:         *)
(* MIOPEN_LRNOP (forward) and MIOPENLRNGradientOp (gradient).              *)
(*                                                                         *)
(* One operator instance is modelled through its lifetime: construction,   *)
(* any number of runs (bounded by MaxRuns) and destruction.  Every vendor  *)
(* call (MIOpen / HIP runtime) of an operation is recorded, in order, in   *)
(* `calls`, with its status and the arguments it received.  Which vendor   *)
(* call of an operation returns a non-success status is an input of the    *)
(* operation (failAt: the index of the failing call, 0 for none).          *)
(***************************************************************************)
EXTENDS Integers, Sequences, FiniteSets, TLC

\* ------------------------------------------------------------------ bounds
\* Largest number of elements of an input tensor.
MaxNumel == 2
\* Largest number of runs of one operator instance.
MaxRuns == 2

\* sizeof(float)
SizeofFloat == 4

\* ------------------------------------------------------------ value spaces
\* Tensor::size(): the number of elements of a 4-D tensor.
Numel(dims) == dims[1] * dims[2] * dims[3] * dims[4]
\* The 4-D input shapes (N, C, H, W) tried: batch and channels vary.
Shapes == {s \in {<<n, c, 1, 1>> : n \in 1..MaxNumel, c \in 1..MaxNumel} :
             Numel(s) <= MaxNumel}

\* The arguments an OperatorDef may carry and the value each has when present
\* (distinct from each other and from every default); the OperatorDefs tried
\* carry none of them, all of them, or some of them.
ArgNames == {"size", "alpha", "beta", "bias"}
ArgValue == [size |-> 5, alpha |-> 2, beta |-> 3, bias |-> 4]
ArgSubsets == {{}, {"size", "beta"}, ArgNames}
OperatorDefs == {[n \in S |-> ArgValue[n]] : S \in ArgSubsets}

\* A device pointer: nullptr, or the buffer a successful hipMalloc returned.
NULL == [buf |-> "nullptr", bytes |-> 0]
Buffer(which, n) == [buf |-> which, bytes |-> n]

\* What an LRN descriptor holds before miopenSetLRNDescriptor.
NoParams == [mode |-> "unset", size |-> 0, alpha |-> 0, beta |-> 0, bias |-> 0]

\* The vendor resources an instance can own.
Resources == {"data_desc_", "norm_desc_", "bwdLRNWs_", "bwdLRNScratch_"}

\* Which vendor call of an operation fails (0: none): a constructor makes up
\* to 3 vendor calls, a forward run 2, a gradient run 6, the destructors 2 and 4.
CtorFailPoints == 0..3
LRNRunFailPoints == 0..2
GradientRunFailPoints == 0..6
LRNDtorFailPoints == 0..2
GradientDtorFailPoints == 0..4

VARIABLES
  operator_def,        \* the OperatorDef the instance is constructed from
  kind,                \* "none", "LRN" or "LRNGradient"
  phase,               \* "unborn", "live", "ctor_failed", "destroyed", "terminated"
  mode_, size_, alpha_, beta_, bias_,   \* the const members
  data_desc_,          \* the (N,C,H,W) the vendor tensor descriptor holds, <<>> if unset
  norm_desc_,          \* the hyperparameters the vendor LRN descriptor holds
  miopen_input_dims_,  \* the dims cached by the operator
  bwdLRNWs_,           \* gradient: workspace device pointer
  bwdLRNScratch_,      \* gradient: scratch device pointer
  acquired,            \* per resource, how many times the vendor handed one out
  released,            \* per resource, how many times the vendor took one back
  X, dY, isFloat,      \* the last run's inputs: dims of X, dims of dY, dispatch type
  out,                 \* dims of the output tensor (Y, or dX)
  op,                  \* the last operation: "none", "ctor", "run", "dtor"
  calls,               \* the vendor calls of the last operation, in order
  result,              \* of the last operation: "none", "true", "fatal"
  nruns                \* number of runs so far

vars == <<operator_def, kind, phase, mode_, size_, alpha_, beta_, bias_,
          data_desc_, norm_desc_, miopen_input_dims_, bwdLRNWs_, bwdLRNScratch_,
          acquired, released, X, dY, isFloat, out, op, calls, result, nruns>>

\* ------------------------------------------------ the running operation
\* The members an operation reads and writes, the vendor-side state, the trace
\* of vendor calls so far and whether a fatal failure has ended the operation.
Machine(dims, desc, norm, ws, scratch, acq, rel, o) ==
  [dims |-> dims, desc |-> desc, norm |-> norm, ws |-> ws, scratch |-> scratch,
   acquired |-> acq, released |-> rel, out |-> o, calls |-> <<>>, thrown |-> FALSE]

\* The status the next vendor call returns.
Status(m, failAt) ==
  IF Len(m.calls) + 1 = failAt THEN "error" ELSE "success"

Log(m, failAt, name, args) ==
  [m EXCEPT !.calls = Append(@, [name |-> name, status |-> Status(m, failAt),
                                  args |-> args])]

\* MIOPEN_ENFORCE(call) / HIP_CHECK(call): the call is made; on success the
\* operation continues from `ok` (m with the call's effect), otherwise the
\* operation ends in a fatal failure with m unchanged.
ENFORCE(m, failAt, name, args, ok) ==
  IF Status(m, failAt) = "success"
    THEN Log(ok, failAt, name, args)
    ELSE [Log(m, failAt, name, args) EXCEPT !.thrown = TRUE]

\* OperatorBase::GetSingleArgument<T>(name, default)
GetSingleArgument(def, name, default) ==
  IF name \in DOMAIN def THEN def[name] ELSE default

\* The operation continues with `next` unless a fatal failure has ended it.
Then(m, next) == IF m.thrown THEN m ELSE next

Acquire(m, r) == [m EXCEPT !.acquired[r] = @ + 1]
Release(m, r) == [m EXCEPT !.released[r] = @ + 1]

\* ------------------------------------------------------- vendor library
\* miopenSetLRNDescriptor: what the LRN descriptor holds afterwards.
LRNParams(mode, size, alpha, beta, bias) ==
  [mode |-> mode, size |-> size, alpha |-> alpha, beta |-> beta, bias |-> bias]

\* miopenSet4dTensorDescriptor(desc, type, n, c, h, w): what the tensor
\* descriptor holds afterwards.
Set4d(n, c, h, w) == <<n, c, h, w>>

\* miopenLRNGetWorkSpaceSize: a float per element of the described tensor;
\* nothing for a descriptor that was never set.
WsSizeOf(desc) == IF desc = <<>> THEN 0 ELSE Numel(desc) * SizeofFloat

\* hipMalloc(&p, n): n = 0 succeeds and leaves nullptr in p.
hipMalloc(which, n) == IF n = 0 THEN NULL ELSE Buffer(which, n)

\* Tensor::ResizeLike(src): the dims the resized tensor has.
ResizeLike(src) == src

\* ------------------------------------------------------- MIOPEN_LRNOP
\* Mutant: the bias argument defaults to 0 instead of 1.
MIOPEN_LRNOP_members_bias0(def) ==
  [mode  |-> "miopenLRNCrossChannel",
   size  |-> GetSingleArgument(def, "size", 0),
   alpha |-> GetSingleArgument(def, "alpha", 0),
   beta  |-> GetSingleArgument(def, "beta", 0),
   bias  |-> GetSingleArgument(def, "bias", 0)]

\* The member initialisers of the constructor.
MIOPEN_LRNOP_members(def) ==
  [mode  |-> "miopenLRNCrossChannel",
   size  |-> GetSingleArgument(def, "size", 0),
   alpha |-> GetSingleArgument(def, "alpha", 0),
   beta  |-> GetSingleArgument(def, "beta", 0),
   bias  |-> GetSingleArgument(def, "bias", 1)]

\* The constructor's body.
MIOPEN_LRNOP_ctor_body(m, failAt, hp) ==
  LET m1 == ENFORCE(m, failAt, "miopenCreateTensorDescriptor", [desc |-> "data_desc_"],
                    Acquire([m EXCEPT !.desc = <<>>], "data_desc_"))
      m2 == Then(m1, ENFORCE(m1, failAt, "miopenCreateLRNDescriptor",
                    [desc |-> "norm_desc_"],
                    Acquire([m1 EXCEPT !.norm = NoParams], "norm_desc_")))
  IN Then(m2, ENFORCE(m2, failAt, "miopenSetLRNDescriptor",
                    [desc |-> "norm_desc_", mode |-> hp.mode, size |-> hp.size,
                     alpha |-> hp.alpha, beta |-> hp.beta, bias |-> hp.bias],
                    [m2 EXCEPT !.norm = LRNParams(hp.mode, hp.size, hp.alpha,
                                                  hp.beta, hp.bias)]))

\* ~MIOPEN_LRNOP(): an exception leaving a destructor terminates the process.
MIOPEN_LRNOP_dtor_body(m, failAt) ==
  LET m1 == ENFORCE(m, failAt, "miopenDestroyTensorDescriptor", [desc |-> "data_desc_"],
                    Release(m, "data_desc_"))
  IN Then(m1, ENFORCE(m1, failAt, "miopenDestroyLRNDescriptor", [desc |-> "norm_desc_"],
                    Release(m1, "norm_desc_")))

\* Mutant: the descriptor is set on every run, whatever the cached dims.
MIOPEN_LRNOP_SetDescriptors_always(m, failAt, Xd) ==
  LET c == [m EXCEPT !.dims = Xd]
  IN ENFORCE(c, failAt, "miopenSet4dTensorDescriptor",
             [desc |-> "data_desc_", n |-> Xd[1], c |-> Xd[2], h |-> Xd[3],
              w |-> Xd[4]],
             [c EXCEPT !.desc = Set4d(Xd[1], Xd[2], Xd[3], Xd[4])])

\* DoRunWithType: "Reshape tensor descriptors if necessary".
MIOPEN_LRNOP_SetDescriptors(m, failAt, Xd) ==
  IF Xd # m.dims
    THEN LET c == [m EXCEPT !.dims = Xd]
         IN ENFORCE(c, failAt, "miopenSet4dTensorDescriptor",
                    [desc |-> "data_desc_", n |-> Xd[1], c |-> Xd[2], h |-> Xd[3],
                     w |-> Xd[4]],
                    [c EXCEPT !.desc = Set4d(Xd[1], Xd[2], Xd[3], Xd[4])])
    ELSE m

\* DoRunWithType: "now actually run the computation".
MIOPEN_LRNOP_Forward(m, failAt, alpha, beta) ==
  ENFORCE(m, failAt, "miopenLRNForward",
          [norm |-> m.norm, alpha |-> alpha, xDesc |-> m.desc, x |-> "X",
           beta |-> beta, yDesc |-> m.desc, y |-> "Y", yDims |-> m.out,
           do_backward |-> FALSE, workSpace |-> NULL, scratch |-> NULL],
          m)

MIOPEN_LRNOP_DoRunWithType(m, failAt, Xd, alpha, beta) ==
  LET m1 == MIOPEN_LRNOP_SetDescriptors(m, failAt, Xd)
  IN Then(m1, MIOPEN_LRNOP_Forward(m1, failAt, alpha, beta))

\* Mutant: Y is not resized before the dispatch.
MIOPEN_LRNOP_Run_noresize(m, failAt, Xd, fl, alpha, beta) ==
  IF fl THEN MIOPEN_LRNOP_DoRunWithType(m, failAt, Xd, alpha, beta)
        ELSE [m EXCEPT !.thrown = TRUE]

\* RunOnDevice: resize Y like X, then dispatch on the type of X.
MIOPEN_LRNOP_Run(m, failAt, Xd, fl, alpha, beta) ==
  LET m1 == [m EXCEPT !.out = ResizeLike(Xd)]
  IN IF fl THEN MIOPEN_LRNOP_DoRunWithType(m1, failAt, Xd, alpha, beta)
           ELSE [m1 EXCEPT !.thrown = TRUE]

\* ------------------------------------------------ MIOPENLRNGradientOp
MIOPENLRNGradientOp_members(def) ==
  [mode  |-> "miopenLRNCrossChannel",
   size  |-> GetSingleArgument(def, "size", 0),
   alpha |-> GetSingleArgument(def, "alpha", 0),
   beta  |-> GetSingleArgument(def, "beta", 0),
   bias  |-> GetSingleArgument(def, "bias", 1)]

MIOPENLRNGradientOp_ctor_body(m, failAt, hp) ==
  LET m1 == ENFORCE(m, failAt, "miopenCreateTensorDescriptor", [desc |-> "data_desc_"],
                    Acquire([m EXCEPT !.desc = <<>>], "data_desc_"))
      m2 == Then(m1, ENFORCE(m1, failAt, "miopenCreateLRNDescriptor",
                    [desc |-> "norm_desc_"],
                    Acquire([m1 EXCEPT !.norm = NoParams], "norm_desc_")))
  IN Then(m2, ENFORCE(m2, failAt, "miopenSetLRNDescriptor",
                    [desc |-> "norm_desc_", mode |-> hp.mode, size |-> hp.size,
                     alpha |-> hp.alpha, beta |-> hp.beta, bias |-> hp.bias],
                    [m2 EXCEPT !.norm = LRNParams(hp.mode, hp.size, hp.alpha,
                                                  hp.beta, hp.bias)]))

\* hipFree(p): its status is ignored; a failed hipFree releases nothing.
hipFree(m, failAt, r, p) ==
  IF Status(m, failAt) = "success"
    THEN Log(Release(m, r), failAt, "hipFree", [ptr |-> p])
    ELSE Log(m, failAt, "hipFree", [ptr |-> p])

\* ~MIOPENLRNGradientOp()
MIOPENLRNGradientOp_dtor_body(m, failAt) ==
  LET m1 == ENFORCE(m, failAt, "miopenDestroyTensorDescriptor", [desc |-> "data_desc_"],
                    Release(m, "data_desc_"))
      m2 == Then(m1, ENFORCE(m1, failAt, "miopenDestroyLRNDescriptor",
                    [desc |-> "norm_desc_"], Release(m1, "norm_desc_")))
      m3 == Then(m2, IF m2.ws # NULL
                       THEN [hipFree(m2, failAt, "bwdLRNWs_", m2.ws) EXCEPT !.ws = NULL]
                       ELSE m2)
  IN Then(m3, IF m3.scratch # NULL
                THEN [hipFree(m3, failAt, "bwdLRNScratch_", m3.scratch)
                        EXCEPT !.scratch = NULL]
                ELSE m3)

MIOPENLRNGradientOp_SetDescriptors(m, failAt, dYd) ==
  IF dYd # m.dims
    THEN LET c == [m EXCEPT !.dims = dYd]
         IN ENFORCE(c, failAt, "miopenSet4dTensorDescriptor",
                    [desc |-> "data_desc_", n |-> dYd[1], c |-> dYd[2], h |-> dYd[3],
                     w |-> dYd[4]],
                    [c EXCEPT !.desc = Set4d(dYd[1], dYd[2], dYd[3], dYd[4])])
    ELSE m

\* size_t ws_size = 0; MIOPEN_ENFORCE(miopenLRNGetWorkSpaceSize(data_desc_, &ws_size))
MIOPENLRNGradientOp_GetWorkSpaceSize(m, failAt) ==
  ENFORCE(m, failAt, "miopenLRNGetWorkSpaceSize",
          [desc |-> m.desc, ws_size |-> WsSizeOf(m.desc)], m)

\* if (bwdLRNWs_ == nullptr) HIP_CHECK(hipMalloc(&bwdLRNWs_, ws_size))
MIOPENLRNGradientOp_AllocWs(m, failAt, ws_size) ==
  IF m.ws = NULL
    THEN ENFORCE(m, failAt, "hipMalloc", [ptr |-> "bwdLRNWs_", size |-> ws_size],
                 IF ws_size = 0 THEN m
                 ELSE Acquire([m EXCEPT !.ws = hipMalloc("bwdLRNWs_", ws_size)],
                              "bwdLRNWs_"))
    ELSE m

\* if (bwdLRNScratch_ == nullptr)
\*   HIP_CHECK(hipMalloc(&bwdLRNScratch_, X.size() * sizeof(float)))
MIOPENLRNGradientOp_AllocScratch(m, failAt, Xd) ==
  IF m.scratch = NULL
    THEN ENFORCE(m, failAt, "hipMalloc",
                 [ptr |-> "bwdLRNScratch_", size |-> Numel(Xd) * SizeofFloat],
                 Acquire([m EXCEPT !.scratch =
                            hipMalloc("bwdLRNScratch_", Numel(Xd) * SizeofFloat)],
                         "bwdLRNScratch_"))
    ELSE m

\* Mutant: the status of the forward call is not checked.
MIOPENLRNGradientOp_Forward_unchecked(m, failAt, alpha, beta) ==
  Log(m, failAt, "miopenLRNForward",
      [norm |-> m.norm, alpha |-> alpha, xDesc |-> m.desc, x |-> "X",
       beta |-> beta, yDesc |-> m.desc, y |-> "bwdLRNScratch_", yDims |-> <<>>,
       do_backward |-> TRUE, workSpace |-> m.ws, scratch |-> m.scratch])

\* "Run fwd pass to populate workspace"
MIOPENLRNGradientOp_Forward(m, failAt, alpha, beta) ==
  ENFORCE(m, failAt, "miopenLRNForward",
          [norm |-> m.norm, alpha |-> alpha, xDesc |-> m.desc, x |-> "X",
           beta |-> beta, yDesc |-> m.desc, y |-> "bwdLRNScratch_", yDims |-> <<>>,
           do_backward |-> TRUE, workSpace |-> m.ws, scratch |-> m.scratch],
          m)

\* Mutant: the backward call is handed the scratch buffer as its workspace.
MIOPENLRNGradientOp_Backward_scratch(m, failAt, alpha, beta) ==
  ENFORCE(m, failAt, "miopenLRNBackward",
          [norm |-> m.norm, alpha |-> alpha, yDesc |-> m.desc, y |-> "Y",
           dyDesc |-> m.desc, dy |-> "dY", xDesc |-> m.desc, x |-> "X",
           beta |-> beta, dxDesc |-> m.desc, dx |-> "dX", dxDims |-> m.out,
           workSpace |-> m.scratch, scratch |-> m.scratch],
          m)

\* "Run the bwd computation"
MIOPENLRNGradientOp_Backward(m, failAt, alpha, beta) ==
  ENFORCE(m, failAt, "miopenLRNBackward",
          [norm |-> m.norm, alpha |-> alpha, yDesc |-> m.desc, y |-> "Y",
           dyDesc |-> m.desc, dy |-> "dY", xDesc |-> m.desc, x |-> "X",
           beta |-> beta, dxDesc |-> m.desc, dx |-> "dX", dxDims |-> m.out,
           workSpace |-> m.ws, scratch |-> m.scratch],
          m)

MIOPENLRNGradientOp_DoRunWithType(m, failAt, Xd, dYd, alpha, beta) ==
  LET m1 == MIOPENLRNGradientOp_SetDescriptors(m, failAt, dYd)
      m2 == Then(m1, MIOPENLRNGradientOp_GetWorkSpaceSize(m1, failAt))
      m3 == Then(m2, MIOPENLRNGradientOp_AllocWs(m2, failAt, WsSizeOf(m2.desc)))
      m4 == Then(m3, MIOPENLRNGradientOp_AllocScratch(m3, failAt, Xd))
      m5 == Then(m4, MIOPENLRNGradientOp_Forward(m4, failAt, alpha, beta))
  IN Then(m5, MIOPENLRNGradientOp_Backward(m5, failAt, alpha, beta))

\* RunOnDevice: resize dX like dY, then dispatch on the type of dY.
MIOPENLRNGradientOp_Run(m, failAt, Xd, dYd, fl, alpha, beta) ==
  LET m1 == [m EXCEPT !.out = ResizeLike(dYd)]
  IN IF fl THEN MIOPENLRNGradientOp_DoRunWithType(m1, failAt, Xd, dYd, alpha, beta)
           ELSE [m1 EXCEPT !.thrown = TRUE]

\* ---------------------------------------------------------------- state
Current ==
  Machine(miopen_input_dims_, data_desc_, norm_desc_, bwdLRNWs_, bwdLRNScratch_,
          acquired, released, out)

\* The members and the vendor-side state become those of m.
Commit(m) ==
  /\ miopen_input_dims_' = m.dims
  /\ data_desc_' = m.desc
  /\ norm_desc_' = m.norm
  /\ bwdLRNWs_' = m.ws
  /\ bwdLRNScratch_' = m.scratch
  /\ acquired' = m.acquired
  /\ released' = m.released
  /\ out' = m.out
  /\ calls' = m.calls

Init ==
  /\ operator_def \in OperatorDefs
  /\ kind = "none"
  /\ phase = "unborn"
  /\ mode_ = "unset" /\ size_ = 0 /\ alpha_ = 0 /\ beta_ = 0 /\ bias_ = 0
  /\ data_desc_ = <<>>
  /\ norm_desc_ = NoParams
  /\ miopen_input_dims_ = <<>>
  /\ bwdLRNWs_ = NULL
  /\ bwdLRNScratch_ = NULL
  /\ acquired = [r \in Resources |-> 0]
  /\ released = [r \in Resources |-> 0]
  /\ X = <<>> /\ dY = <<>> /\ isFloat = TRUE
  /\ out = <<>>
  /\ op = "none"
  /\ calls = <<>>
  /\ result = "none"
  /\ nruns = 0

\* MIOPEN_LRNOP::MIOPEN_LRNOP(operator_def, ws)
MIOPEN_LRNOP_ctor ==
  /\ phase = "unborn"
  /\ \E failAt \in CtorFailPoints :
       LET hp == MIOPEN_LRNOP_members(operator_def)
           m  == MIOPEN_LRNOP_ctor_body(Current, failAt, hp)
       IN /\ kind' = "LRN"
          /\ mode_' = hp.mode /\ size_' = hp.size /\ alpha_' = hp.alpha
          /\ beta_' = hp.beta /\ bias_' = hp.bias
          /\ Commit(m)
          /\ phase' = IF m.thrown THEN "ctor_failed" ELSE "live"
          /\ result' = IF m.thrown THEN "fatal" ELSE "none"
  /\ op' = "ctor"
  /\ UNCHANGED <<operator_def, X, dY, isFloat, nruns>>

\* MIOPENLRNGradientOp::MIOPENLRNGradientOp(operator_def, ws)
MIOPENLRNGradientOp_ctor ==
  /\ phase = "unborn"
  /\ \E failAt \in CtorFailPoints :
       LET hp == MIOPENLRNGradientOp_members(operator_def)
           m  == MIOPENLRNGradientOp_ctor_body(
                   [Current EXCEPT !.ws = NULL, !.scratch = NULL], failAt, hp)
       IN /\ kind' = "LRNGradient"
          /\ mode_' = hp.mode /\ size_' = hp.size /\ alpha_' = hp.alpha
          /\ beta_' = hp.beta /\ bias_' = hp.bias
          /\ Commit(m)
          /\ phase' = IF m.thrown THEN "ctor_failed" ELSE "live"
          /\ result' = IF m.thrown THEN "fatal" ELSE "none"
  /\ op' = "ctor"
  /\ UNCHANGED <<operator_def, X, dY, isFloat, nruns>>

\* MIOPEN_LRNOP::RunOnDevice()
MIOPEN_LRNOP_RunOnDevice ==
  /\ phase = "live" /\ kind = "LRN" /\ nruns < MaxRuns
  /\ \E Xd \in Shapes, fl \in BOOLEAN :
     \E failAt \in (IF fl THEN LRNRunFailPoints ELSE {0}) :
       LET m == MIOPEN_LRNOP_Run(Current, failAt, Xd, fl, alpha_, beta_)
       IN /\ X' = Xd /\ isFloat' = fl
          /\ Commit(m)
          /\ result' = IF m.thrown THEN "fatal" ELSE "true"
  /\ op' = "run"
  /\ nruns' = nruns + 1
  /\ UNCHANGED <<operator_def, kind, phase, mode_, size_, alpha_, beta_, bias_, dY>>

\* MIOPENLRNGradientOp::RunOnDevice()
MIOPENLRNGradientOp_RunOnDevice ==
  /\ phase = "live" /\ kind = "LRNGradient" /\ nruns < MaxRuns
  /\ \E Xd \in Shapes, dYd \in Shapes, fl \in BOOLEAN :
     \E failAt \in (IF fl THEN GradientRunFailPoints ELSE {0}) :
       LET m == MIOPENLRNGradientOp_Run(Current, failAt, Xd, dYd, fl, alpha_, beta_)
       IN /\ X' = Xd /\ dY' = dYd /\ isFloat' = fl
          /\ Commit(m)
          /\ result' = IF m.thrown THEN "fatal" ELSE "true"
  /\ op' = "run"
  /\ nruns' = nruns + 1
  /\ UNCHANGED <<operator_def, kind, phase, mode_, size_, alpha_, beta_, bias_>>

\* MIOPEN_LRNOP::~MIOPEN_LRNOP()
MIOPEN_LRNOP_dtor ==
  /\ phase = "live" /\ kind = "LRN"
  /\ \E failAt \in LRNDtorFailPoints :
       LET m == MIOPEN_LRNOP_dtor_body(Current, failAt)
       IN /\ Commit(m)
          /\ phase' = IF m.thrown THEN "terminated" ELSE "destroyed"
          /\ result' = IF m.thrown THEN "fatal" ELSE "none"
  /\ op' = "dtor"
  /\ UNCHANGED <<operator_def, kind, mode_, size_, alpha_, beta_, bias_,
                 X, dY, isFloat, nruns>>

\* MIOPENLRNGradientOp::~MIOPENLRNGradientOp()
MIOPENLRNGradientOp_dtor ==
  /\ phase = "live" /\ kind = "LRNGradient"
  /\ \E failAt \in GradientDtorFailPoints :
       LET m == MIOPENLRNGradientOp_dtor_body(Current, failAt)
       IN /\ Commit(m)
          /\ phase' = IF m.thrown THEN "terminated" ELSE "destroyed"
          /\ result' = IF m.thrown THEN "fatal" ELSE "none"
  /\ op' = "dtor"
  /\ UNCHANGED <<operator_def, kind, mode_, size_, alpha_, beta_, bias_,
                 X, dY, isFloat, nruns>>

Next ==
  \/ MIOPEN_LRNOP_ctor
  \/ MIOPENLRNGradientOp_ctor
  \/ MIOPEN_LRNOP_RunOnDevice
  \/ MIOPENLRNGradientOp_RunOnDevice
  \/ MIOPEN_LRNOP_dtor
  \/ MIOPENLRNGradientOp_dtor

Spec == Init /\ [][Next]_vars

\* ================================================================ claims
\* The input whose dims define the shape of a run: X for the forward
\* operator, dY for the gradient operator.
ShapeInput == IF kind = "LRN" THEN X ELSE dY

\* The positions, in the last operation's trace, of the calls named n.
CallsNamed(n) == {i \in 1..Len(calls) : calls[i].name = n}
ForwardCalls == CallsNamed("miopenLRNForward")
BackwardCalls == CallsNamed("miopenLRNBackward")
SetCalls == Cardinality(CallsNamed("miopenSet4dTensorDescriptor"))
AllSucceeded == \A i \in 1..Len(calls) : calls[i].status = "success"

\* What the operator arguments say the hyperparameters are.
ArgOr(name, default) ==
  IF name \in DOMAIN operator_def THEN operator_def[name] ELSE default
ExpectedParams ==
  [mode |-> "miopenLRNCrossChannel", size |-> ArgOr("size", 0),
   alpha |-> ArgOr("alpha", 0), beta |-> ArgOr("beta", 0), bias |-> ArgOr("bias", 1)]

\* C1: in a construction or a run of either operator, a vendor call that
\* returns a non-success status is the last vendor call of the operation, and
\* the operation ends in a fatal failure: the constructed object does not
\* exist, the run does not return true.
C1_FailuresAreFatal ==
  op \in {"ctor", "run"} =>
    \A i \in 1..Len(calls) :
      calls[i].status # "success" =>
        /\ i = Len(calls)
        /\ result = "fatal"
        /\ op = "ctor" => phase = "ctor_failed"

\* C1 witness: a gradient run whose LRN forward call failed.
C1_Witness ==
  /\ op = "run" /\ kind = "LRNGradient" /\ result = "fatal"
  /\ Len(calls) >= 4
  /\ calls[Len(calls)].name = "miopenLRNForward"
  /\ calls[Len(calls)].status = "error"

\* C2: at every vendor LRN forward or backward call of a run, the tensor
\* descriptor holds the (N, C, H, W) of the run's shape-defining input.
C2_DescriptorHoldsShape ==
  op = "run" =>
    \A i \in ForwardCalls \cup BackwardCalls :
      calls[i].args.xDesc = <<ShapeInput[1], ShapeInput[2], ShapeInput[3], ShapeInput[4]>>

\* C3 as stated: every forward run on a float input resizes Y like X, makes
\* exactly one LRN forward call (X in, Y out, inference mode, no workspace)
\* and returns true.
C3_EveryRunReturnsTrue ==
  (op = "run" /\ kind = "LRN" /\ isFloat) =>
    /\ out = X
    /\ Cardinality(ForwardCalls) = 1
    /\ \A i \in ForwardCalls :
         /\ calls[i].args.x = "X" /\ calls[i].args.y = "Y"
         /\ calls[i].args.yDims = X
         /\ calls[i].args.do_backward = FALSE
         /\ calls[i].args.workSpace = NULL
    /\ result = "true"

\* C3 as amended: every forward run on a float input resizes Y like X before
\* any LRN forward call and makes at most one such call (X in, Y out,
\* inference mode, no workspace); it returns true exactly when no vendor call
\* of the run failed, and then it has made exactly one LRN forward call, its
\* last vendor call.
C3_ForwardRun ==
  (op = "run" /\ kind = "LRN" /\ isFloat) =>
    /\ out = X
    /\ Cardinality(ForwardCalls) <= 1
    /\ \A i \in ForwardCalls :
         /\ calls[i].args.x = "X" /\ calls[i].args.y = "Y"
         /\ calls[i].args.yDims = X
         /\ calls[i].args.do_backward = FALSE
         /\ calls[i].args.workSpace = NULL
    /\ (result = "true") <=> AllSucceeded
    /\ result = "true" => ForwardCalls = {Len(calls)}

\* C3 witness: a second forward run on a float input that returned true.
C3_Witness ==
  /\ op = "run" /\ kind = "LRN" /\ isFloat /\ result = "true" /\ nruns = 2
  /\ ForwardCalls # {}

\* C4: a gradient run that returns true has resized dX like dY and made
\* exactly one LRN forward call (workspace-populating, on X) before exactly
\* one LRN backward call, both with the same workspace buffer, the backward
\* call reading Y, dY and X and writing dX; and in no gradient run is a
\* backward call made without a successful forward call before it.
C4_ForwardThenBackward ==
  (op = "run" /\ kind = "LRNGradient") =>
    /\ \A b \in BackwardCalls :
         \E f \in ForwardCalls : f < b /\ calls[f].status = "success"
    /\ result = "true" =>
         /\ out = dY
         /\ Cardinality(ForwardCalls) = 1
         /\ Cardinality(BackwardCalls) = 1
         /\ \A f \in ForwardCalls, b \in BackwardCalls :
              /\ f < b
              /\ calls[f].args.x = "X"
              /\ calls[f].args.do_backward = TRUE
              /\ calls[f].args.workSpace = bwdLRNWs_
              /\ calls[b].args.workSpace = calls[f].args.workSpace
              /\ calls[b].args.y = "Y" /\ calls[b].args.dy = "dY"
              /\ calls[b].args.x = "X" /\ calls[b].args.dx = "dX"
              /\ calls[b].args.dxDims = dY

\* C4 witness: a gradient run, X and dY of different shapes, returned true.
C4_Witness ==
  /\ op = "run" /\ kind = "LRNGradient" /\ result = "true" /\ X # dY
  /\ BackwardCalls # {}

\* C5: the LRN descriptor is configured exactly once, by the constructor,
\* with cross-channel mode and the arguments size, alpha, beta, bias (0, 0, 0
\* and 1 when absent); runs and destructors never configure it; while the
\* instance lives, the descriptor and the stored members hold these values,
\* and every LRN forward or backward call is handed them.
C5_HyperparametersForwarded ==
  /\ (op = "ctor" /\ phase = "live") =>
       /\ Cardinality(CallsNamed("miopenSetLRNDescriptor")) = 1
       /\ \A i \in CallsNamed("miopenSetLRNDescriptor") :
            [mode |-> calls[i].args.mode, size |-> calls[i].args.size,
             alpha |-> calls[i].args.alpha, beta |-> calls[i].args.beta,
             bias |-> calls[i].args.bias] = ExpectedParams
  /\ op # "ctor" => CallsNamed("miopenSetLRNDescriptor") = {}
  /\ phase = "live" =>
       /\ norm_desc_ = ExpectedParams
       /\ [mode |-> mode_, size |-> size_, alpha |-> alpha_, beta |-> beta_,
           bias |-> bias_] = ExpectedParams
  /\ op = "run" =>
       \A i \in ForwardCalls \cup BackwardCalls :
         /\ calls[i].args.norm = ExpectedParams
         /\ calls[i].args.alpha = ExpectedParams.alpha
         /\ calls[i].args.beta = ExpectedParams.beta

\* C5 witness: the second run of an instance built without a bias argument
\* reached the vendor with the default bias.
C5_Witness ==
  /\ op = "run" /\ nruns = 2 /\ result = "true"
  /\ "bias" \notin DOMAIN operator_def /\ "size" \in DOMAIN operator_def
  /\ \E i \in ForwardCalls : calls[i].args.norm.bias = 1

\* The allocated size of the buffer a device pointer names.
Bytes(p) == p.bytes

\* C6: at every LRN forward and backward call of a gradient run, the workspace
\* buffer is at least as large as the workspace size the library reports for
\* the tensor descriptor, and the scratch buffer at least as large as a float
\* tensor of the descriptor's shape.
C6_BuffersLargeEnough ==
  (op = "run" /\ kind = "LRNGradient") =>
    \A i \in ForwardCalls \cup BackwardCalls :
      /\ Bytes(calls[i].args.workSpace) >= WsSizeOf(calls[i].args.xDesc)
      /\ Bytes(calls[i].args.scratch) >= WsSizeOf(calls[i].args.xDesc)

\* A step that is a run of the operator.
RunStep == op' = "run" /\ nruns' = nruns + 1

\* C7 as stated: a run calls miopenSet4dTensorDescriptor exactly once if the
\* dims of its shape-defining input differ from the cached dims and not at
\* all if they are equal; the first run of a fresh instance always calls it;
\* a run with the shape of the immediately preceding run never does.
C7_SetIffDimsDiffer ==
  [][RunStep =>
       /\ SetCalls' = IF ShapeInput' # miopen_input_dims_ THEN 1 ELSE 0
       /\ nruns = 0 => SetCalls' = 1
       /\ (op = "run" /\ ShapeInput' = ShapeInput) => SetCalls' = 0]_vars

\* C7 as amended: a run on a float input calls miopenSet4dTensorDescriptor
\* exactly once if the dims of its shape-defining input differ from the
\* cached dims and not at all if they are equal, and a run on an input of
\* another type never calls it; the first run of a fresh instance calls it if
\* its input is float; a run with the shape of the immediately preceding run
\* never does if that preceding run was on a float input.
C7_SetIffDimsDifferFloat ==
  [][RunStep =>
       /\ isFloat' =>
            SetCalls' = IF ShapeInput' # miopen_input_dims_ THEN 1 ELSE 0
       /\ ~isFloat' => SetCalls' = 0
       /\ (nruns = 0 /\ isFloat') => SetCalls' = 1
       /\ (op = "run" /\ isFloat /\ ShapeInput' = ShapeInput) => SetCalls' = 0]_vars

\* C7 witness: a float run with the shape of the preceding run's cached dims
\* went to the vendor without setting the descriptor.
C7_Witness ==
  /\ op = "run" /\ nruns = 2 /\ isFloat /\ result = "true"
  /\ SetCalls = 0
  /\ miopen_input_dims_ = ShapeInput

\* C8: when the lifetime of an instance is over (its constructor failed, or
\* its destructor ran), every vendor resource it acquired has been released
\* exactly once.
C8_ReleasedExactlyOnce ==
  phase \in {"ctor_failed", "destroyed", "terminated"} =>
    \A r \in Resources : released[r] = acquired[r]

====
